---- MODULE Spec2Model ----
(***************************************************************************)
(* The starfleet_status module (library/starfleet_status.py and            *)
(* plugins/modules/starfleet_status.py): argument validation, the rendered *)
(* status document, and the read / compare / write steps of one            *)
(* invocation against a small POSIX file system.                           *)
(*                                                                         *)
(* Text is a sequence of one-character strings.  A file holds a sequence   *)
(* of bytes; an ASCII byte is written as its character and BadByte stands  *)
(* for a byte that is not valid UTF-8.                                     *)
(***************************************************************************)
EXTENDS FiniteSets, Integers, Sequences, TLC

\* ------------------------------------------------------------------ bounds
\* Invocations started in one behaviour.
MaxRuns == 2
\* Longest prefix a failed write leaves behind.
MaxPartial == 1

\* ------------------------------------------------------------------ text
BadByte == "xFF"

LowerCase == <<"a", "b", "c", "d", "e", "f", "g", "h", "i", "j", "k", "l", "m",
               "n", "o", "p", "q", "r", "s", "t", "u", "v", "w", "x", "y", "z">>
UpperCase == <<"A", "B", "C", "D", "E", "F", "G", "H", "I", "J", "K", "L", "M",
               "N", "O", "P", "Q", "R", "S", "T", "U", "V", "W", "X", "Y", "Z">>

\* str.upper() of one character.
UpperChar(c) ==
  IF \E i \in 1..Len(LowerCase) : LowerCase[i] = c
  THEN UpperCase[CHOOSE i \in 1..Len(LowerCase) : LowerCase[i] = c]
  ELSE c

\* str.upper(): every cased character upper-cased, the others kept.
upper(s) == [i \in 1..Len(s) |-> UpperChar(s[i])]

green == <<"g", "r", "e", "e", "n">>
yellow == <<"y", "e", "l", "l", "o", "w">>
red == <<"r", "e", "d">>
blue == <<"b", "l", "u", "e">>
Unknown == <<"U", "n", "k", "n", "o", "w", "n">>

BANNER_TITLE == <<"S", "T", "A", "R", "F", "L", "E", "E", "T", " ", "S", "T", "A", "T", "U", "S", " ", "R", "E", "P", "O", "R", "T", "\n">>
BANNER_RULE == <<"=", "=", "=", "=", "=", "=", "=", "=", "=", "=", "=", "=", "=", "=", "=", "=", "=", "=", "=", "=", "=", "=", "\n">>
LABEL_SHIP == <<"S", "H", "I", "P", " ", " ", " ", " ", " ", " ", " ", " ", ":", " ">>
LABEL_REGISTRY == <<"R", "E", "G", "I", "S", "T", "R", "Y", " ", " ", " ", " ", ":", " ">>
LABEL_CAPTAIN == <<"C", "A", "P", "T", "A", "I", "N", " ", " ", " ", " ", " ", ":", " ">>
LABEL_ALERT == <<"A", "L", "E", "R", "T", " ", "L", "E", "V", "E", "L", " ", ":", " ">>
NL == <<"\n">>

\* build_content without the .upper() call.
build_content_no_upper(ship, registry, alert_level, captain) ==
  BANNER_TITLE \o BANNER_RULE
    \o LABEL_SHIP \o ship \o NL
    \o LABEL_REGISTRY \o registry \o NL
    \o LABEL_CAPTAIN \o captain \o NL
    \o LABEL_ALERT \o alert_level \o NL

\* build_content: the banner, then the four labelled lines.
build_content(ship, registry, alert_level, captain) ==
  BANNER_TITLE \o BANNER_RULE
    \o LABEL_SHIP \o ship \o NL
    \o LABEL_REGISTRY \o registry \o NL
    \o LABEL_CAPTAIN \o captain \o NL
    \o LABEL_ALERT \o upper(alert_level) \o NL

\* ------------------------------------------------------------------ arguments
Keys == {"path", "ship", "registry", "alert_level", "captain"}

\* The argument_spec handed to AnsibleModule.
alert_choices == {green, yellow, red}

module_args ==
  [path        |-> [required |-> TRUE,  default |-> <<>>,    choices |-> {}],
   ship        |-> [required |-> TRUE,  default |-> <<>>,    choices |-> {}],
   registry    |-> [required |-> TRUE,  default |-> <<>>,    choices |-> {}],
   alert_level |-> [required |-> FALSE, default |-> green,   choices |-> alert_choices],
   captain     |-> [required |-> FALSE, default |-> Unknown, choices |-> {}]]

\* AnsibleModule(argument_spec=...): the required arguments that are missing.
MissingRequired(args) ==
  {k \in Keys : module_args[k].required /\ k \notin DOMAIN args}

\* An argument_spec whose choices are not enforced.
NoBadChoice(args) == {}

\* ... and the given arguments whose value is outside their choices.
BadChoice(args) ==
  {k \in DOMAIN args : module_args[k].choices # {} /\ args[k] \notin module_args[k].choices}

\* module.params: the given arguments, the defaults for the others.
Params(args) ==
  [k \in Keys |-> IF k \in DOMAIN args THEN args[k] ELSE module_args[k].default]

\* ------------------------------------------------------------------ files
PathP == <<"p">>
PathQ == <<"q">>
Paths == {PathP, PathQ}

\* os.path.exists: os.stat succeeded (it is False when stat is refused, too).
PathExists(f) == f.dx /\ f.kind # "absent"

\* open(path, "r"): the errno, "OK" when the file opens.
OpenReadError(f) ==
  IF ~f.dx THEN "EACCES"
  ELSE IF f.kind = "absent" THEN "ENOENT"
  ELSE IF f.kind = "dir" THEN "EISDIR"
  ELSE IF ~f.r THEN "EACCES"
  ELSE "OK"

\* open(path, "w"): the errno, "OK" when the file opens (created when absent).
OpenWriteError(f) ==
  IF ~f.dx THEN "EACCES"
  ELSE IF f.kind = "dir" THEN "EISDIR"
  ELSE IF f.kind = "absent" THEN (IF f.dw THEN "OK" ELSE "EACCES")
  ELSE IF ~f.w THEN "EACCES"
  ELSE "OK"

\* The utf-8 codec accepts the bytes.
Utf8Valid(data) == \A i \in 1..Len(data) : data[i] # BadByte

\* Text-mode read with newline=None: "\r\n" and a lone "\r" come back as "\n".
\* The text is translated in two halves, cut where no "\r\n" pair straddles.
RECURSIVE UniversalNewlines(_)
UniversalNewlines(s) ==
  IF Len(s) = 0 THEN <<>>
  ELSE IF Len(s) = 1 THEN (IF s[1] = "\r" THEN NL ELSE s)
  ELSE IF s = <<"\r", "\n">> THEN NL
  ELSE LET half == Len(s) \div 2
           cut == IF s[half] = "\r" /\ s[half + 1] = "\n"
                  THEN (IF half > 1 THEN half - 1 ELSE half + 1)
                  ELSE half
       IN  UniversalNewlines(SubSeq(s, 1, cut))
             \o UniversalNewlines(SubSeq(s, cut + 1, Len(s)))

\* f.read() of a file opened with open(path, "r", encoding="utf-8").
ReadText(data) == UniversalNewlines(data)

\* os.linesep of the POSIX hosts the module runs on.
linesep == NL

\* The text with every "\n" replaced by `eol`, translated in two halves.
RECURSIVE TranslateNewlines(_, _)
TranslateNewlines(s, eol) ==
  IF Len(s) = 0 THEN <<>>
  ELSE IF Len(s) = 1 THEN (IF s[1] = "\n" THEN eol ELSE s)
  ELSE LET half == Len(s) \div 2
       IN  TranslateNewlines(SubSeq(s, 1, half), eol)
             \o TranslateNewlines(SubSeq(s, half + 1, Len(s)), eol)

\* Text-mode write with newline=None: every "\n" goes out as os.linesep.
WriteText(s) == TranslateNewlines(s, linesep)

\* write(2) at the descriptor's offset 0: the bytes replace the first
\* Len(bytes) bytes of the file and what lies beyond them stays.
Overlay(old, bytes) == bytes \o SubSeq(old, Len(bytes) + 1, Len(old))

Min(a, b) == IF a <= b THEN a ELSE b

\* ------------------------------------------------------------------ inputs
ShipE == <<"E">>
Registry1 == <<"1">>
CaptainK == <<"K">>

\* A complete task: every argument given.
FullArgs(al) ==
  [path |-> PathP, ship |-> ShipE, registry |-> Registry1, alert_level |-> al,
   captain |-> CaptainK]

\* The task `a` with the arguments `ks` left out.
Omit(a, ks) == [k \in (DOMAIN a) \ ks |-> a[k]]

\* The tasks an invocation is started with: the valid ones (alert level and
\* captain given or left to their defaults) and the ones with a single defect.
ValidArgs ==
  {Omit(FullArgs(al), ks) : al \in {yellow, red}, ks \in {{}, {"captain"}}}
    \cup {Omit(FullArgs(green), ks) : ks \in {{"alert_level"}, {"alert_level", "captain"}}}
InvalidArgs ==
  {Omit(FullArgs(yellow), {k}) : k \in {"path", "ship", "registry"}}
    \cup {FullArgs(blue)}
Args == ValidArgs \cup InvalidArgs

\* The rendered document of a valid task.
Desired(a) ==
  LET params == Params(a)
  IN  build_content(params.ship, params.registry, params.alert_level, params.captain)

\* The same bytes with CRLF line ends.
Crlf(s) == TranslateNewlines(s, <<"\r", "\n">>)

\* What the target may hold before the first invocation.
InitialFiles ==
  {[kind |-> "absent", data |-> <<>>], [kind |-> "dir", data |-> <<>>]}
    \cup {[kind |-> "file", data |-> d] :
            d \in {<<>>, <<"x">>, <<BadByte>>,
                   Desired(FullArgs(yellow)), Crlf(Desired(FullArgs(yellow)))}}

\* Its permissions: r and w on the file, x (search) and w on its directory.
Permissions ==
  {[r |-> TRUE,  w |-> TRUE,  dx |-> TRUE,  dw |-> TRUE],
   [r |-> FALSE, w |-> TRUE,  dx |-> TRUE,  dw |-> TRUE],
   [r |-> TRUE,  w |-> FALSE, dx |-> TRUE,  dw |-> TRUE],
   [r |-> TRUE,  w |-> TRUE,  dx |-> TRUE,  dw |-> FALSE],
   [r |-> TRUE,  w |-> TRUE,  dx |-> FALSE, dw |-> TRUE]}

File(c, m) ==
  [kind |-> c.kind, data |-> c.data, r |-> m.r, w |-> m.w, dx |-> m.dx, dw |-> m.dw]

\* ------------------------------------------------------------------ state
VARIABLES
  impl,   \* which of the two module files runs: "library" or "plugins"
  fs,     \* the file at each path
  inv,    \* the invocation of each process
  prev,   \* the last invocation that ended before another one started
  runs    \* invocations started so far

vars == <<impl, fs, inv, prev, runs>>

Procs == {1, 2}

NoMsg == [text |-> "", path |-> <<>>, error |-> ""]

Idle ==
  [pc |-> "idle", args |-> [k \in {} |-> <<>>], check_mode |-> FALSE,
   path |-> <<>>, desired |-> <<>>, existing |-> <<>>, compared |-> FALSE,
   changed |-> FALSE, result |-> [msg |-> NoMsg], start |-> <<>>, built |-> {},
   nExists |-> 0, nReads |-> 0, nOpenW |-> 0, nWrites |-> 0, touched |-> {}]

Init ==
  /\ impl \in {"library", "plugins"}
  /\ \E c \in InitialFiles, m \in Permissions :
       fs = [q \in Paths |->
               IF q = PathP THEN File(c, m)
               ELSE File([kind |-> "file", data |-> <<"q">>], m)]
  /\ inv = [p \in Procs |-> Idle]
  /\ prev = Idle
  /\ runs = 0

\* ------------------------------------------------------------------ results
\* module.fail_json(msg=...)
fail_json(msg) == [failed |-> TRUE, msg |-> msg]

\* module.exit_json(changed=..., msg=..., written_path=..., content=...)
exit_json(changed, msg, written_path, content) ==
  [changed |-> changed, msg |-> msg, written_path |-> written_path, content |-> content]

ReadFailureMsg(path, e) ==
  [text  |-> IF impl = "library" THEN "Failed to read existing file {path}: {e}"
             ELSE "Failed to read {path}: {e}",
   path  |-> path, error |-> e]

WriteFailureMsg(path, e) ==
  [text  |-> IF impl = "library" THEN "Failed to write file {path}: {e}"
             ELSE "Failed to write {path}: {e}",
   path  |-> path, error |-> e]

CheckModeMsg(changed) ==
  [text  |-> IF changed THEN "Check mode: would update status file."
             ELSE IF impl = "library" THEN "Check mode: status file already correct."
             ELSE "Check mode: status already correct.",
   path  |-> <<>>, error |-> ""]

DoneMsg(changed) ==
  [text  |-> IF changed THEN "Status file updated." ELSE "Status file already correct.",
   path  |-> <<>>, error |-> ""]

ValidationMsg(text) == [text |-> text, path |-> <<>>, error |-> ""]

\* ------------------------------------------------------------------ steps
\* run_module up to the first file access: AnsibleModule(...) validates the
\* task and fails it, or fills module.params; build_content gives `desired`.
\* `start` keeps the file system the invocation found, `built` the alert
\* levels build_content was called with.
AnsibleModule(a, cm) ==
  LET base == [Idle EXCEPT !.args = a, !.check_mode = cm, !.start = fs]
  IN  IF MissingRequired(a) # {}
      THEN [base EXCEPT !.pc = "failed",
                        !.result = fail_json(ValidationMsg("missing required arguments"))]
      ELSE IF BadChoice(a) # {}
      THEN [base EXCEPT !.pc = "failed",
                        !.result = fail_json(ValidationMsg("value must be one of the choices"))]
      ELSE [base EXCEPT !.pc = "exists",
                        !.path = Params(a).path,
                        !.desired = Desired(a),
                        !.built = {Params(a).alert_level}]

\* run_module without the `if module.check_mode:` exit.
CompareIgnoringCheckMode(i, existing) ==
  LET changed == existing # i.desired
      j == [i EXCEPT !.existing = existing, !.compared = TRUE, !.changed = changed]
  IN  IF changed
      THEN [j EXCEPT !.pc = "open_w"]
      ELSE [j EXCEPT !.pc = "done",
                     !.result = exit_json(changed, DoneMsg(changed), i.path, i.desired)]

\* run_module without the `if changed:` guard of the write.
CompareAlwaysWrite(i, existing) ==
  LET changed == existing # i.desired
      j == [i EXCEPT !.existing = existing, !.compared = TRUE, !.changed = changed]
  IN  IF i.check_mode
      THEN [j EXCEPT !.pc = "done",
                     !.result = exit_json(changed, CheckModeMsg(changed), i.path, i.desired)]
      ELSE [j EXCEPT !.pc = "open_w"]

\* changed = (existing != desired), the check-mode exit, and the exit of an
\* invocation that has nothing to write.
Compare(i, existing) ==
  LET changed == existing # i.desired
      j == [i EXCEPT !.existing = existing, !.compared = TRUE, !.changed = changed]
  IN  IF i.check_mode
      THEN [j EXCEPT !.pc = "done",
                     !.result = exit_json(changed, CheckModeMsg(changed), i.path, i.desired)]
      ELSE IF changed
      THEN [j EXCEPT !.pc = "open_w"]
      ELSE [j EXCEPT !.pc = "done",
                     !.result = exit_json(changed, DoneMsg(changed), i.path, i.desired)]

\* A process starts an invocation; the one it ran before becomes `prev`.
Start(p) ==
  /\ inv[p].pc \in {"idle", "done", "failed"}
  /\ runs < MaxRuns
  /\ \E a \in Args, cm \in BOOLEAN :
       inv' = [inv EXCEPT ![p] = AnsibleModule(a, cm)]
  /\ prev' = IF inv[p].pc = "idle" THEN prev ELSE inv[p]
  /\ runs' = runs + 1
  /\ UNCHANGED <<impl, fs>>

\* if os.path.exists(path): ... else existing = ""
Exists(p) ==
  /\ inv[p].pc = "exists"
  /\ LET i == [inv[p] EXCEPT !.nExists = @ + 1, !.touched = @ \cup {inv[p].path}]
         f == fs[i.path]
     IN  \/ /\ PathExists(f)
            /\ inv' = [inv EXCEPT ![p] = [i EXCEPT !.pc = "read"]]
         \/ /\ ~PathExists(f)
            /\ inv' = [inv EXCEPT ![p] = Compare(i, <<>>)]
  /\ UNCHANGED <<impl, fs, prev, runs>>

\* except Exception as e: module.fail_json(msg="Failed to read ...")
ReadFailed(i, e) ==
  [i EXCEPT !.pc = "failed", !.result = fail_json(ReadFailureMsg(i.path, e))]

\* with open(path, "r", encoding="utf-8") as f: existing = f.read()
Read(p) ==
  /\ inv[p].pc = "read"
  /\ LET i == [inv[p] EXCEPT !.nReads = @ + 1, !.touched = @ \cup {inv[p].path}]
         f == fs[i.path]
     IN  \/ /\ OpenReadError(f) # "OK"
            /\ inv' = [inv EXCEPT ![p] = ReadFailed(i, OpenReadError(f))]
         \/ /\ OpenReadError(f) = "OK"
            /\ ~Utf8Valid(f.data)
            /\ inv' = [inv EXCEPT ![p] = ReadFailed(i, "UnicodeDecodeError")]
         \/ /\ OpenReadError(f) = "OK"
            /\ inv' = [inv EXCEPT ![p] = ReadFailed(i, "EIO")]
         \/ /\ OpenReadError(f) = "OK"
            /\ Utf8Valid(f.data)
            /\ inv' = [inv EXCEPT ![p] = Compare(i, ReadText(f.data))]
  /\ UNCHANGED <<impl, fs, prev, runs>>

\* except Exception as e: module.fail_json(msg="Failed to write ...")
WriteFailed(i, e) ==
  [i EXCEPT !.pc = "failed", !.result = fail_json(WriteFailureMsg(i.path, e))]

\* open(path, "w", encoding="utf-8"): the file is created or cut to length 0.
Truncated(f) ==
  IF f.kind = "absent"
  THEN [f EXCEPT !.kind = "file", !.data = <<>>, !.r = TRUE, !.w = TRUE]
  ELSE [f EXCEPT !.data = <<>>]

OpenW(p) ==
  /\ inv[p].pc = "open_w"
  /\ LET i == [inv[p] EXCEPT !.nOpenW = @ + 1, !.touched = @ \cup {inv[p].path}]
         f == fs[i.path]
     IN  \/ /\ OpenWriteError(f) # "OK"
            /\ inv' = [inv EXCEPT ![p] = WriteFailed(i, OpenWriteError(f))]
            /\ fs' = fs
         \/ /\ OpenWriteError(f) = "OK"
            /\ inv' = [inv EXCEPT ![p] = [i EXCEPT !.pc = "write"]]
            /\ fs' = [fs EXCEPT ![i.path] = Truncated(f)]
  /\ UNCHANGED <<impl, prev, runs>>

\* f.write(desired) and the close that flushes it; then exit_json.  A write
\* that fails has put a prefix of the bytes into the file.
Write(p) ==
  /\ inv[p].pc = "write"
  /\ LET i == [inv[p] EXCEPT !.nWrites = @ + 1]
         f == fs[i.path]
         bytes == WriteText(i.desired)
     IN  \/ /\ fs' = [fs EXCEPT ![i.path].data = Overlay(f.data, bytes)]
            /\ inv' = [inv EXCEPT ![p] =
                         [i EXCEPT !.pc = "done",
                                   !.result = exit_json(i.changed, DoneMsg(i.changed),
                                                        i.path, i.desired)]]
         \/ \E k \in 0..Min(MaxPartial, Len(bytes) - 1) :
              /\ fs' = [fs EXCEPT ![i.path].data = Overlay(f.data, SubSeq(bytes, 1, k))]
              /\ inv' = [inv EXCEPT ![p] = WriteFailed(i, "ENOSPC")]
  /\ UNCHANGED <<impl, prev, runs>>

Step(p) == Start(p) \/ Exists(p) \/ Read(p) \/ OpenW(p) \/ Write(p)

\* One invocation after the other, as a play runs its tasks on a host.
SeqProcs == {1}
Next == \E p \in SeqProcs : Step(p)
Spec == Init /\ [][Next]_vars

\* Two processes whose steps interleave.
NextConc == \E p \in Procs : Step(p)
SpecConc == Init /\ [][NextConc]_vars

\* ------------------------------------------------------------------ properties
Started(i) == i.pc # "idle"
Ended(i) == i.pc \in {"done", "failed"}
\* The task passed AnsibleModule's validation.
Validated(i) == i.path # <<>>
\* The bytes at a path, an absent path read as the empty string.
Content(f) == IF f.kind = "absent" THEN <<>> ELSE f.data

ReadFailureTexts ==
  {"Failed to read existing file {path}: {e}", "Failed to read {path}: {e}"}
WriteFailureTexts ==
  {"Failed to write file {path}: {e}", "Failed to write {path}: {e}"}

\* C1 (as claimed): of two successive successful non-check-mode invocations
\* with the same task, the first reports changed exactly when the file was
\* absent or differed from the desired content, the second reports
\* changed = false, opens nothing for writing and leaves the file system as
\* it found it.
C1_Idempotence ==
  LET first == prev
      second == inv[1]
  IN  (/\ first.pc = "done" /\ second.pc = "done"
       /\ ~first.check_mode /\ ~second.check_mode
       /\ first.args = second.args)
      => /\ first.result.changed
              = (\/ first.start[first.path].kind = "absent"
                 \/ first.start[first.path].data # Desired(first.args))
         /\ second.result.changed = FALSE
         /\ second.nOpenW = 0 /\ second.nWrites = 0
         /\ fs = second.start

\* C2: a check-mode invocation never reaches the write step and the file
\* system stays as the invocation found it, whatever `changed` is.
C2_DryRunLeavesFile ==
  \A p \in Procs :
    LET i == inv[p]
    IN  (Started(i) /\ i.check_mode)
        => /\ fs = i.start
           /\ i.nOpenW = 0 /\ i.nWrites = 0
           /\ i.pc \notin {"open_w", "write"}

C2_Witness ==
  /\ inv[1].pc = "done" /\ inv[1].check_mode
  /\ inv[1].result.changed
  /\ inv[1].start[PathP].kind = "file"

\* C3 (as claimed): a non-check-mode invocation that fails in the write step
\* ends with a write-failure message and the file as it was before.
C3_WriteFailureKeepsContents ==
  \A p \in Procs :
    LET i == inv[p]
    IN  (i.pc = "failed" /\ i.nOpenW = 1)
        => /\ i.result.msg.text \in WriteFailureTexts
           /\ fs[i.path] = i.start[i.path]

\* The invocation stopped at the read: failure outcome, read-failure
\* message, no comparison, no write, the file system untouched.
ReadStopped(i) ==
  /\ i.pc = "failed"
  /\ i.result.msg.text \in ReadFailureTexts
  /\ ~i.compared
  /\ i.nOpenW = 0 /\ i.nWrites = 0
  /\ fs = i.start

\* Opening and decoding the file cannot succeed.
Unreadable(f) == f.kind = "dir" \/ ~f.r \/ ~f.dx \/ ~Utf8Valid(f.data)

\* C4 (as claimed): an invocation whose path exists but cannot be read stops
\* at the read, and only a path that does not exist is taken as "".
C4_ReadFailureStops ==
  \A p \in Procs :
    LET i == inv[p]
        f0 == i.start[i.path]
    IN  Validated(i)
        => /\ (i.compared /\ i.nReads = 0) => f0.kind = "absent"
           /\ (Ended(i) /\ f0.kind # "absent" /\ Unreadable(f0)) => ReadStopped(i)
           /\ (i.pc = "failed" /\ i.nReads = 1 /\ i.nOpenW = 0) => ReadStopped(i)

\* C5 (as claimed): after a successful non-check-mode invocation the file
\* holds exactly build_content(...), which is also the result's `content`.
C5_Convergence ==
  \A p \in Procs :
    LET i == inv[p]
    IN  (i.pc = "done" /\ ~i.check_mode)
        => /\ fs[i.path].kind = "file"
           /\ fs[i.path].data = Desired(i.args)
           /\ i.result.content = Desired(i.args)

\* C6 (as claimed): a successful invocation reports changed = (the content
\* the path had, "" when absent, differs from the desired content).
C6_ChangedFlag ==
  \A p \in Procs :
    LET i == inv[p]
    IN  i.pc = "done"
        => i.result.changed = (Content(i.start[i.path]) # Desired(i.args))

\* C7 (as claimed): once two non-check-mode invocations with different
\* desired contents have both succeeded, the file holds the desired content
\* of one of them.
C7_LastWriterWins ==
  LET a == inv[1]
      b == inv[2]
  IN  (/\ a.pc = "done" /\ b.pc = "done"
       /\ ~a.check_mode /\ ~b.check_mode
       /\ a.path = b.path /\ a.desired # b.desired)
      => fs[a.path].data \in {a.desired, b.desired}

\* C8: an invocation checks existence, reads and opens for writing at most
\* once each, in that order; it has opened the path for writing exactly when
\* it found a change outside check mode, has written once when it then
\* succeeded, and touches no other path.
C8_SideEffectCount ==
  \A p \in Procs :
    LET i == inv[p]
    IN  Started(i)
        => /\ i.nExists <= 1 /\ i.nReads <= 1 /\ i.nOpenW <= 1
           /\ i.nWrites <= i.nOpenW
           /\ (i.nReads > 0 \/ i.nOpenW > 0) => i.nExists = 1
           /\ Ended(i) => (i.nOpenW = 1 <=> (i.compared /\ i.changed /\ ~i.check_mode))
           /\ i.pc = "done" => (i.nWrites = 1 <=> (i.result.changed /\ ~i.check_mode))
           /\ i.touched \subseteq {i.path}
           /\ \A q \in Paths \ {i.path} : fs[q] = i.start[q]
           /\ i.nOpenW = 0 => fs = i.start

C8_Witness ==
  /\ inv[1].pc = "done" /\ ~inv[1].check_mode
  /\ inv[1].nExists = 1 /\ inv[1].nReads = 1 /\ inv[1].nWrites = 1

\* C9: a task that omits path, ship or registry, or gives an alert level
\* outside green, yellow, red, fails before any file access, and
\* build_content is only ever called with one of the three levels.
C9_ValidationBeforeIO ==
  \A p \in Procs :
    LET i == inv[p]
        a == i.args
    IN  /\ i.built \subseteq {green, yellow, red}
        /\ (/\ Started(i)
            /\ \/ ~({"path", "ship", "registry"} \subseteq DOMAIN a)
               \/ ("alert_level" \in DOMAIN a /\ a.alert_level \notin {green, yellow, red}))
           => /\ i.pc = "failed"
              /\ i.nExists = 0 /\ i.nReads = 0 /\ i.nOpenW = 0 /\ i.nWrites = 0
              /\ i.touched = {} /\ i.built = {}
              /\ fs = i.start

C9_Witness ==
  /\ inv[1].pc = "failed"
  /\ "alert_level" \in DOMAIN inv[1].args
  /\ inv[1].args.alert_level = blue
  /\ prev.pc = "failed" /\ "ship" \notin DOMAIN prev.args

\* The document spelled out: head, then the values between the labels.
DocHead == <<"S", "T", "A", "R", "F", "L", "E", "E", "T", " ", "S", "T", "A", "T", "U", "S", " ", "R", "E", "P", "O", "R", "T", "\n", "=", "=", "=", "=", "=", "=", "=", "=", "=", "=", "=", "=", "=", "=", "=", "=", "=", "=", "=", "=", "=", "=", "\n", "S", "H", "I", "P", " ", " ", " ", " ", " ", " ", " ", " ", ":", " ">>
DocRegistry == <<"\n", "R", "E", "G", "I", "S", "T", "R", "Y", " ", " ", " ", " ", ":", " ">>
DocCaptain == <<"\n", "C", "A", "P", "T", "A", "I", "N", " ", " ", " ", " ", " ", ":", " ">>
DocAlert == <<"\n", "A", "L", "E", "R", "T", " ", "L", "E", "V", "E", "L", " ", ":", " ">>
DocGREEN == <<"G", "R", "E", "E", "N">>
DocYELLOW == <<"Y", "E", "L", "L", "O", "W">>
DocRED == <<"R", "E", "D">>

ExpectedDocument(a) ==
  DocHead \o a.ship
    \o DocRegistry \o a.registry
    \o DocCaptain \o (IF "captain" \in DOMAIN a THEN a.captain ELSE Unknown)
    \o DocAlert \o (IF "alert_level" \notin DOMAIN a THEN DocGREEN
                    ELSE IF a.alert_level = yellow THEN DocYELLOW
                    ELSE IF a.alert_level = red THEN DocRED
                    ELSE DocGREEN)
    \o <<"\n">>

\* C10: the desired content of a valid task is the banner and the four
\* labelled lines, six newline-ended lines in all, with the values verbatim,
\* captain "Unknown" and alert level "GREEN" when omitted, the alert level
\* in upper case; the same task gives the same content again.
C10_RenderedDocument ==
  \A p \in Procs :
    LET i == inv[p]
        d == i.desired
    IN  Validated(i)
        => /\ d = ExpectedDocument(i.args)
           /\ d[Len(d)] = "\n"
           /\ Cardinality({n \in 1..Len(d) : d[n] = "\n"}) = 6
           /\ i.pc = "done" => i.result.content = d
           /\ (Validated(prev) /\ prev.args = i.args) => prev.desired = d

C10_Witness ==
  /\ inv[1].pc = "done"
  /\ "alert_level" \in DOMAIN inv[1].args
  /\ inv[1].args.alert_level = yellow
  /\ "captain" \notin DOMAIN inv[1].args
  /\ Validated(prev) /\ "alert_level" \notin DOMAIN prev.args

====
